---- MODULE Spec2Model ----
(***************************************************************************)
(* Input-to-action pipeline of routbox: the byte decoder of the serial and *)
(* WinUSB transports, KeyMappingProcessor (key_processor.rs) and KeySender *)
(* (key_sender.rs), driven by the processor thread of main.rs.             *)
(*                                                                         *)
(* Rust Strings are modelled as sequences of one-character strings, so     *)
(* that split("+"), to_uppercase, format!("0x{:02x}") and parse_key are    *)
(* computed character by character as the code computes them.  Entry       *)
(* handles (usize indexes into entrys) are 1-based here: handle i stands   *)
(* for the Rust index i - 1.                                               *)
(***************************************************************************)
EXTENDS Integers, Sequences, FiniteSets, TLC

(***************************************************************************)
(* Bounds of the model.                                                    *)
(***************************************************************************)
\* Number of input events the processor thread receives in one run.
MaxEvents == 4
\* Largest number of bytes one USB bulk read returns in the model.
MaxBulk == 2
\* Number of events the decoder sends in one run of the whole pipeline.
MaxEmitted == 3

(***************************************************************************)
(* Strings.                                                                *)
(***************************************************************************)
Lower == <<"a","b","c","d","e","f","g","h","i","j","k","l","m",
           "n","o","p","q","r","s","t","u","v","w","x","y","z">>
Upper == <<"A","B","C","D","E","F","G","H","I","J","K","L","M",
           "N","O","P","Q","R","S","T","U","V","W","X","Y","Z">>
Digits == <<"0","1","2","3","4","5","6","7","8","9">>
HexDigits == <<"0","1","2","3","4","5","6","7","8","9","a","b","c","d","e","f">>

\* char::to_uppercase on the characters the model uses (ASCII).
ToUpperChar(c) ==
    IF \E i \in 1..Len(Lower) : Lower[i] = c
    THEN Upper[CHOOSE i \in 1..Len(Lower) : Lower[i] = c]
    ELSE c

\* str::to_uppercase
to_uppercase(s) == [i \in 1..Len(s) |-> ToUpperChar(s[i])]

\* Vec::contains / slice::contains
Contains(seq, x) == \E i \in 1..Len(seq) : seq[i] = x

Range(seq) == {seq[i] : i \in 1..Len(seq)}

\* str::split(sep) for a one-character separator: "" gives [""], "a+" gives
\* ["a", ""].
RECURSIVE split(_, _)
split(s, sep) ==
    IF ~Contains(s, sep) THEN <<s>>
    ELSE LET p == CHOOSE i \in 1..Len(s) :
                     s[i] = sep /\ \A j \in 1..(i - 1) : s[j] # sep
         IN  <<SubSeq(s, 1, p - 1)>> \o split(SubSeq(s, p + 1, Len(s)), sep)

\* Iterator::collect::<String>() of the pieces of a split: concatenation.
RECURSIVE concat(_)
concat(parts) ==
    IF parts = <<>> THEN <<>> ELSE Head(parts) \o concat(Tail(parts))

Plus == <<"+">>

(***************************************************************************)
(* enigo::Key.  A key is <<variant, hi, lo>>: a named variant carries      *)
(* 0, 0, and Key::Other(n) carries the u32 n as two 16-bit halves.         *)
(***************************************************************************)
Named(v) == <<v, 0, 0>>
Other(hi, lo) == <<"Other", hi, lo>>

\* u32::from_str (str::parse::<u32>): an optional leading "+", then one or
\* more decimal digits, Err on overflow of 32 bits.  The result is
\* [ok, hi, lo].
DigitVal(c) == (CHOOSE i \in 1..Len(Digits) : Digits[i] = c) - 1
IsDigit(c) == \E i \in 1..Len(Digits) : Digits[i] = c

RECURSIVE ParseDigits(_, _, _)
ParseDigits(s, hi, lo) ==
    IF s = <<>> THEN [ok |-> TRUE, hi |-> hi, lo |-> lo]
    ELSE IF ~IsDigit(Head(s)) THEN [ok |-> FALSE, hi |-> 0, lo |-> 0]
    ELSE LET l  == lo * 10 + DigitVal(Head(s))
             h  == hi * 10 + (l \div 65536)
         IN  IF h > 65535 THEN [ok |-> FALSE, hi |-> 0, lo |-> 0]
             ELSE ParseDigits(Tail(s), h, l % 65536)

ParseU32(s) ==
    LET body == IF s # <<>> /\ Head(s) = "+" THEN Tail(s) ELSE s
    IN  IF body = <<>> THEN [ok |-> FALSE, hi |-> 0, lo |-> 0]
        ELSE ParseDigits(body, 0, 0)

\* parse_key: the match on the uppercased token, in source order.  The
\* grave accent of the last arm is written "BACKQUOTE".
KeyTable ==
    <<
       <<<<"A", "L", "T">>, Named("Alt")>>,
       <<<<"A", "L", "T", "_", "L">>, Named("Alt")>>,
       <<<<"A", "L", "T", "_", "R">>, Named("Alt")>>,
       <<<<"C", "O", "N", "T", "R", "O", "L">>, Named("Control")>>,
       <<<<"C", "T", "R", "L">>, Named("Control")>>,
       <<<<"C", "T", "R", "L", "_", "L">>, Named("Control")>>,
       <<<<"C", "T", "R", "L", "_", "R">>, Named("Control")>>,
       <<<<"S", "H", "I", "F", "T">>, Named("Shift")>>,
       <<<<"S", "H", "I", "F", "T", "_", "L">>, Named("Shift")>>,
       <<<<"S", "H", "I", "F", "T", "_", "R">>, Named("Shift")>>,
       <<<<"W", "I", "N">>, Named("Meta")>>,
       <<<<"W", "I", "N", "_", "L">>, Named("Meta")>>,
       <<<<"W", "I", "N", "_", "R">>, Named("Meta")>>,
       <<<<"S", "U", "P", "E", "R">>, Named("Meta")>>,
       <<<<"C", "O", "M", "M", "A", "N", "D">>, Named("Meta")>>,
       <<<<"D", "O", "W", "N">>, Named("DownArrow")>>,
       <<<<"D", "O", "W", "N", "_", "A", "R", "R", "O", "W">>, Named("DownArrow")>>,
       <<<<"L", "E", "F", "T">>, Named("LeftArrow")>>,
       <<<<"L", "E", "F", "T", "_", "A", "R", "R", "O", "W">>, Named("LeftArrow")>>,
       <<<<"R", "I", "G", "H", "T">>, Named("RightArrow")>>,
       <<<<"R", "I", "G", "H", "T", "_", "A", "R", "R", "O", "W">>, Named("RightArrow")>>,
       <<<<"U", "P">>, Named("UpArrow")>>,
       <<<<"U", "P", "_", "A", "R", "R", "O", "W">>, Named("UpArrow")>>,
       <<<<"B", "A", "C", "K", "S", "P", "A", "C", "E">>, Named("Backspace")>>,
       <<<<"C", "A", "P", "S", "L", "O", "C", "K">>, Named("CapsLock")>>,
       <<<<"D", "E", "L", "E", "T", "E">>, Named("Delete")>>,
       <<<<"E", "N", "D">>, Named("End")>>,
       <<<<"E", "N", "T", "E", "R">>, Named("Return")>>,
       <<<<"E", "S", "C", "A", "P", "E">>, Named("Escape")>>,
       <<<<"F", "1">>, Named("F1")>>,
       <<<<"F", "2">>, Named("F2")>>,
       <<<<"F", "3">>, Named("F3")>>,
       <<<<"F", "4">>, Named("F4")>>,
       <<<<"F", "5">>, Named("F5")>>,
       <<<<"F", "6">>, Named("F6")>>,
       <<<<"F", "7">>, Named("F7")>>,
       <<<<"F", "8">>, Named("F8")>>,
       <<<<"F", "9">>, Named("F9")>>,
       <<<<"F", "1", "0">>, Named("F10")>>,
       <<<<"F", "1", "1">>, Named("F11")>>,
       <<<<"F", "1", "2">>, Named("F12")>>,
       <<<<"H", "O", "M", "E">>, Named("Home")>>,
       <<<<"P", "A", "G", "E", "D", "O", "W", "N">>, Named("PageDown")>>,
       <<<<"P", "A", "G", "E", "U", "P">>, Named("PageUp")>>,
       <<<<"S", "P", "A", "C", "E">>, Named("Space")>>,
       <<<<"T", "A", "B">>, Named("Tab")>>,
       <<<<"A">>, Named("A")>>,
       <<<<"B">>, Named("B")>>,
       <<<<"C">>, Named("C")>>,
       <<<<"D">>, Named("D")>>,
       <<<<"E">>, Named("E")>>,
       <<<<"F">>, Named("F")>>,
       <<<<"G">>, Named("G")>>,
       <<<<"H">>, Named("H")>>,
       <<<<"I">>, Named("I")>>,
       <<<<"J">>, Named("J")>>,
       <<<<"K">>, Named("K")>>,
       <<<<"L">>, Named("L")>>,
       <<<<"M">>, Named("M")>>,
       <<<<"N">>, Named("N")>>,
       <<<<"O">>, Named("O")>>,
       <<<<"P">>, Named("P")>>,
       <<<<"Q">>, Named("Q")>>,
       <<<<"R">>, Named("R")>>,
       <<<<"S">>, Named("S")>>,
       <<<<"T">>, Named("T")>>,
       <<<<"U">>, Named("U")>>,
       <<<<"V">>, Named("V")>>,
       <<<<"W">>, Named("W")>>,
       <<<<"X">>, Named("X")>>,
       <<<<"Y">>, Named("Y")>>,
       <<<<"Z">>, Named("Z")>>,
       <<<<"-">>, Other(0, 189)>>,
       <<<<"=">>, Other(0, 187)>>,
       <<<<"[">>, Other(0, 219)>>,
       <<<<"]">>, Other(0, 221)>>,
       <<<<>>, Other(0, 220)>>,
       <<<<";">>, Other(0, 186)>>,
       <<<<"'">>, Other(0, 222)>>,
       <<<<",">>, Other(0, 188)>>,
       <<<<".">>, Other(0, 190)>>,
       <<<<"/">>, Other(0, 191)>>,
       <<<<"BACKQUOTE">>, Other(0, 192)>>
    >>

\* KeySender::parse_key: Ok(key) or Err(UnknownKey(uppercased token)).
KeyOk(key) == [ok |-> TRUE, key |-> key, err |-> <<>>]
UnknownKey(k) == [ok |-> FALSE, key |-> Named("None"), err |-> k]

InKeyTable(u) == \E i \in 1..Len(KeyTable) : KeyTable[i][1] = u
KeyTableGet(u) == KeyTable[CHOOSE i \in 1..Len(KeyTable) : KeyTable[i][1] = u][2]

starts_with(s, c) == s # <<>> /\ Head(s) = c

parse_key(key_str) ==
    LET uppercase_key == to_uppercase(key_str)
    IN  IF InKeyTable(uppercase_key) THEN KeyOk(KeyTableGet(uppercase_key))
        ELSE IF starts_with(key_str, "@")
        THEN LET n == ParseU32(concat(split(uppercase_key, "@")))
             IN  IF n.ok THEN KeyOk(Other(n.hi, n.lo))
                 ELSE UnknownKey(uppercase_key)
        ELSE UnknownKey(uppercase_key)

(***************************************************************************)
(* TourAction and the host driven through enigo.                           *)
(***************************************************************************)
KeyPress(s) == [kind |-> "KeyPress", s |-> s]
KeyClick(s) == [kind |-> "KeyClick", s |-> s]
KeyRelease(s) == [kind |-> "KeyRelease", s |-> s]
NoAction == [kind |-> "None", s |-> <<>>]

\* One call of enigo: key(key, Direction::Press), key(key, Direction::Release)
\* or scroll(n, Axis::Vertical).
EnigoPress(key) == [op |-> "Press", key |-> key, n |-> 0]
EnigoRelease(key) == [op |-> "Release", key |-> key, n |-> 0]
EnigoScroll(n) == [op |-> "Scroll", key |-> Named("Vertical"), n |-> n]

\* The host keys physically down after the host has executed ops.
RECURSIVE ApplyOps(_, _)
ApplyOps(down, ops) ==
    IF ops = <<>> THEN down
    ELSE LET o == Head(ops)
         IN  ApplyOps(IF o.op = "Press" THEN down \cup {o.key}
                      ELSE IF o.op = "Release" THEN down \ {o.key}
                      ELSE down,
                      Tail(ops))

Reverse(seq) == [i \in 1..Len(seq) |-> seq[Len(seq) + 1 - i]]

\* ClickNeedsPress without the test of active_key.
ClickNeedsPress_Always(active_key, key) == TRUE

\* KeyClick: whether the parsed key is depressed by the click.
ClickNeedsPress(active_key, key) == key \notin active_key

\* KeyClick: the loop over s.split("+"); parse_key(k)? returns from send_key
\* at the first token that does not parse, with the keys depressed so far
\* still in to_be_release.
RECURSIVE ClickPressLoop(_, _, _, _)
ClickPressLoop(tokens, active_key, ops, to_be_release) ==
    IF tokens = <<>>
    THEN [ok |-> TRUE, err |-> <<>>, ops |-> ops, to_be_release |-> to_be_release]
    ELSE LET r == parse_key(Head(tokens))
         IN  IF ~r.ok
             THEN [ok |-> FALSE, err |-> r.err, ops |-> ops,
                   to_be_release |-> to_be_release]
             ELSE IF ClickNeedsPress(active_key, r.key)
             THEN ClickPressLoop(Tail(tokens), active_key,
                                 Append(ops, EnigoPress(r.key)),
                                 Append(to_be_release, r.key))
             ELSE ClickPressLoop(Tail(tokens), active_key, ops, to_be_release)

\* KeyClick: the keys of to_be_release are released in reverse order.
ClickReleaseOps(to_be_release) ==
    LET rev == Reverse(to_be_release)
    IN  [i \in 1..Len(rev) |-> EnigoRelease(rev[i])]

WHEEL_UP == <<"W","H","E","E","L","_","U","P">>
WHEEL_DOWN == <<"W","H","E","E","L","_","D","O","W","N">>

\* KeySender::send_key on a sender whose active_key is active_key: the
\* Result, the new active_key and the enigo calls made, in order.
SendOk(active_key, ops) ==
    [ok |-> TRUE, err |-> <<>>, active_key |-> active_key, ops |-> ops]
SendErr(active_key, ops, err) ==
    [ok |-> FALSE, err |-> err, active_key |-> active_key, ops |-> ops]

SendKeyPress(active_key, s) ==
    LET r == parse_key(s)
    IN  IF ~r.ok THEN SendErr(active_key, <<>>, r.err)
        ELSE SendOk(active_key \cup {r.key}, <<EnigoPress(r.key)>>)

\* KeyRelease that leaves the key in active_key.
SendKeyRelease_KeepActive(active_key, s) ==
    LET r == parse_key(s)
    IN  IF ~r.ok THEN SendErr(active_key, <<>>, r.err)
        ELSE SendOk(active_key, <<EnigoRelease(r.key)>>)

SendKeyRelease(active_key, s) ==
    LET r == parse_key(s)
    IN  IF ~r.ok THEN SendErr(active_key, <<>>, r.err)
        ELSE SendOk(active_key \ {r.key}, <<EnigoRelease(r.key)>>)

SendKeyClick(active_key, s) ==
    LET u == to_uppercase(s)
    IN  IF u = WHEEL_UP THEN SendOk(active_key, <<EnigoScroll(-1)>>)
        ELSE IF u = WHEEL_DOWN THEN SendOk(active_key, <<EnigoScroll(1)>>)
        ELSE LET l == ClickPressLoop(split(s, "+"), active_key, <<>>, <<>>)
             IN  IF ~l.ok THEN SendErr(active_key, l.ops, l.err)
                 ELSE SendOk(active_key,
                             l.ops \o ClickReleaseOps(l.to_be_release))

send_key(active_key, action) ==
    IF action.kind = "KeyPress" THEN SendKeyPress(active_key, action.s)
    ELSE IF action.kind = "KeyClick" THEN SendKeyClick(active_key, action.s)
    ELSE IF action.kind = "KeyRelease" THEN SendKeyRelease(active_key, action.s)
    ELSE SendOk(active_key, <<>>)

(***************************************************************************)
(* InputEvent, KeyTriggerTiming, KeyMappingConfig.                         *)
(***************************************************************************)
KeyPressed(k) == [kind |-> "KeyPressed", key |-> k]
KeyReleased(k) == [kind |-> "KeyReleased", key |-> k]

KeyTriggerTiming == {"OnPress", "OnHold", "OnRelease"}

KeyMappingConfig(keys, action, trigger) ==
    [keys |-> keys, action |-> action, trigger |-> trigger]

(***************************************************************************)
(* KeyMappingProcessor.                                                    *)
(***************************************************************************)
\* from_config, for one mapping: the last token of keys is the trigger key,
\* the tokens before it are the modifiers.
KeyMappingEntry(m) ==
    LET key_iter == split(m.keys, "+")
    IN  [trigger_key |-> key_iter[Len(key_iter)],
         action |-> m.action,
         modifier |-> SubSeq(key_iter, 1, Len(key_iter) - 1),
         trigger |-> m.trigger]

\* from_config: the flat table of entries.
from_config_entrys(ms) == [i \in 1..Len(ms) |-> KeyMappingEntry(ms[i])]

\* from_config: trigger_key_map, trigger key -> handles in configuration
\* order.
from_config_mappings(ms) ==
    LET es == from_config_entrys(ms)
        idx == [i \in 1..Len(es) |-> i]
    IN  [k \in {es[i].trigger_key : i \in 1..Len(es)} |->
            SelectSeq(idx, LAMBDA i : es[i].trigger_key = k)]

\* from_config panics ("Should be at least contains one key") when the split
\* of a keys string has no first piece.
from_config_panics(ms) ==
    \E i \in 1..Len(ms) : split(ms[i].keys, "+") = <<>>

\* The 1000 of get_actived_action.
Delta == 1000

\* Score with delta, not -delta, for OnRelease.
Score_SameSign(e, delta) ==
    Len(e.modifier)
    + (IF e.trigger = "OnPress" THEN delta
       ELSE IF e.trigger = "OnHold" THEN Delta
       ELSE delta)

\* Score without the number of modifiers.
Score_NoModifiers(e, delta) ==
    IF e.trigger = "OnPress" THEN delta
    ELSE IF e.trigger = "OnHold" THEN Delta
    ELSE -delta

\* get_actived_action: the closure given to max_by_key.
Score(e, delta) ==
    Len(e.modifier)
    + (IF e.trigger = "OnPress" THEN delta
       ELSE IF e.trigger = "OnHold" THEN Delta
       ELSE -delta)

\* get_actived_action: the closure given to filter_map.
ModifiersPressed(e, pressed) ==
    \A i \in 1..Len(e.modifier) : e.modifier[i] \in pressed

\* max_by_key returning the first of several equally maximum items.
max_by_key_first(items, keys) ==
    IF items = <<>> THEN 0
    ELSE items[CHOOSE i \in 1..Len(items) :
                  /\ \A j \in 1..Len(items) : keys[j] <= keys[i]
                  /\ \A j \in 1..(i - 1) : keys[j] < keys[i]]

\* Iterator::max_by_key over items with keys[i] the key of items[i]: None
\* (0) for no item; of several equally maximum items the last is returned.
max_by_key(items, keys) ==
    IF items = <<>> THEN 0
    ELSE items[CHOOSE i \in 1..Len(items) :
                  /\ \A j \in 1..Len(items) : keys[j] <= keys[i]
                  /\ \A j \in (i + 1)..Len(items) : keys[j] < keys[i]]

\* get_actived_action: the selected handle, 0 for None.
get_actived_action(es, maps, pressed, ev) ==
    LET delta == IF ev.kind = "KeyPressed" THEN Delta ELSE -Delta
        k == ev.key
    IN  IF k \in DOMAIN maps
        THEN LET survivors ==
                     SelectSeq(maps[k], LAMBDA kk : ModifiersPressed(es[kk], pressed))
             IN  max_by_key(survivors,
                            [i \in 1..Len(survivors) |-> Score(es[survivors[i]], delta)])
        ELSE 0

\* process, OnHold: whether the held entry v is given up for actived_key.
Superseded(actived_key, v) ==
    \E i \in 1..Len(actived_key.modifier) :
        \/ Contains(v.modifier, actived_key.modifier[i])
        \/ v.trigger_key = actived_key.modifier[i]

\* SupersedeReleases without the test of new_output_key.
SupersedeReleases_All(new_output_key, kb) == TRUE

\* process, OnHold: whether the token kb of a superseded entry is released.
SupersedeReleases(new_output_key, kb) == ~Contains(new_output_key, kb)

\* process, OnHold: the filter_map over output_action; the kept handles and
\* the KeyRelease actions pushed, in order.
RECURSIVE HoldFilter(_, _, _, _)
HoldFilter(es, held, actived_key, new_output_key) ==
    IF held = <<>> THEN [kept |-> <<>>, key_actions |-> <<>>]
    ELSE LET v == es[Head(held)]
             rest == HoldFilter(es, Tail(held), actived_key, new_output_key)
             toks == split(v.action, "+")
             rel == SelectSeq(toks, LAMBDA kb : SupersedeReleases(new_output_key, kb))
         IN  IF Superseded(actived_key, v)
             THEN [kept |-> rest.kept,
                   key_actions |->
                       [i \in 1..Len(rel) |-> KeyRelease(rel[i])] \o rest.key_actions]
             ELSE [kept |-> <<Head(held)>> \o rest.kept,
                   key_actions |-> rest.key_actions]

\* DependsOn without the test of the modifiers.
DependsOn_TriggerOnly(v, k) == v.trigger_key = k

\* process, KeyReleased: whether the held entry v is released with key k.
DependsOn(v, k) ==
    v.trigger_key = k \/ \E i \in 1..Len(v.modifier) : v.modifier[i] = k

\* ReleaseAll with the tokens released last to first.
ReleaseAll_Reversed(v) ==
    LET toks == Reverse(split(v.action, "+"))
    IN  [i \in 1..Len(toks) |-> KeyRelease(toks[i])]

\* process, KeyReleased: the KeyRelease actions of one removed entry.
ReleaseAll(v) ==
    LET toks == split(v.action, "+")
    IN  [i \in 1..Len(toks) |-> KeyRelease(toks[i])]

\* ReleaseFilter that also releases the tokens of the entries it keeps.
RECURSIVE ReleaseFilter_ReleaseKept(_, _, _)
ReleaseFilter_ReleaseKept(es, held, k) ==
    IF held = <<>> THEN [kept |-> <<>>, key_actions |-> <<>>]
    ELSE LET v == es[Head(held)]
             rest == ReleaseFilter_ReleaseKept(es, Tail(held), k)
         IN  [kept |-> IF DependsOn(v, k) THEN rest.kept
                       ELSE <<Head(held)>> \o rest.kept,
              key_actions |-> ReleaseAll(v) \o rest.key_actions]

\* process, KeyReleased: the filter_map over output_action.
RECURSIVE ReleaseFilter(_, _, _)
ReleaseFilter(es, held, k) ==
    IF held = <<>> THEN [kept |-> <<>>, key_actions |-> <<>>]
    ELSE LET v == es[Head(held)]
             rest == ReleaseFilter(es, Tail(held), k)
         IN  IF DependsOn(v, k)
             THEN [kept |-> rest.kept,
                   key_actions |-> ReleaseAll(v) \o rest.key_actions]
             ELSE [kept |-> <<Head(held)>> \o rest.kept,
                   key_actions |-> rest.key_actions]

\* process, OnHold: the KeyPress actions of the new entry.
HoldPresses(new_output_key) ==
    [i \in 1..Len(new_output_key) |-> KeyPress(new_output_key[i])]

ProcResult(pressed, held, key_actions, actived) ==
    [pressed_key |-> pressed, output_action |-> held,
     key_actions |-> key_actions, actived |-> actived]

\* process, the KeyPressed arm.
ProcessPressed(es, pressed, held, actived, k) ==
    IF actived = 0 THEN ProcResult(pressed \cup {k}, held, <<>>, actived)
    ELSE LET actived_key == es[actived]
         IN  IF actived_key.trigger = "OnPress"
             THEN ProcResult(pressed \cup {k}, held,
                             <<KeyClick(actived_key.action)>>, actived)
             ELSE IF actived_key.trigger = "OnHold"
             THEN LET new_output_key == split(actived_key.action, "+")
                      f == HoldFilter(es, held, actived_key, new_output_key)
                  IN  ProcResult(pressed \cup {k},
                                 Append(f.kept, actived),
                                 f.key_actions \o HoldPresses(new_output_key),
                                 actived)
             ELSE ProcResult(pressed \cup {k}, held, <<>>, actived)

\* ProcessReleased clicking whatever entry was selected.
ProcessReleased_ClickAny(es, pressed, held, actived, k) ==
    LET click == IF actived # 0
                 THEN <<KeyClick(es[actived].action)>>
                 ELSE <<>>
        f == ReleaseFilter(es, held, k)
    IN  ProcResult(pressed \ {k}, f.kept, click \o f.key_actions, actived)

\* ProcessReleased that clicks only for a key that is in pressed_key.
ProcessReleased_HeldOnly(es, pressed, held, actived, k) ==
    LET click == IF actived # 0 /\ es[actived].trigger = "OnRelease"
                    /\ k \in pressed
                 THEN <<KeyClick(es[actived].action)>>
                 ELSE <<>>
        f == ReleaseFilter(es, held, k)
    IN  ProcResult(pressed \ {k}, f.kept, click \o f.key_actions, actived)

\* process, the KeyReleased arm.
ProcessReleased(es, pressed, held, actived, k) ==
    LET click == IF actived # 0 /\ es[actived].trigger = "OnRelease"
                 THEN <<KeyClick(es[actived].action)>>
                 ELSE <<>>
        f == ReleaseFilter(es, held, k)
    IN  ProcResult(pressed \ {k}, f.kept, click \o f.key_actions, actived)

\* process with pressed_key updated before the selection.
process_UpdateFirst(es, maps, pressed, held, ev) ==
    LET seen == IF ev.kind = "KeyPressed" THEN pressed \cup {ev.key}
                ELSE pressed \ {ev.key}
        actived == get_actived_action(es, maps, seen, ev)
    IN  IF ev.kind = "KeyPressed"
        THEN ProcessPressed(es, pressed, held, actived, ev.key)
        ELSE ProcessReleased(es, pressed, held, actived, ev.key)

\* KeyMappingProcessor::process: the new pressed_key and output_action, the
\* returned key_actions, and the handle selected on the way.
process(es, maps, pressed, held, ev) ==
    LET actived == get_actived_action(es, maps, pressed, ev)
    IN  IF ev.kind = "KeyPressed"
        THEN ProcessPressed(es, pressed, held, actived, ev.key)
        ELSE ProcessReleased(es, pressed, held, actived, ev.key)

(***************************************************************************)
(* The decoder of the transports.                                          *)
(***************************************************************************)
\* format!("0x{:02x}", key_code)
Hex(b) == <<"0", "x", HexDigits[(b \div 16) + 1], HexDigits[(b % 16) + 1]>>

Decoded(kind, key) == [kind |-> kind, key |-> key]
NotDecoded == Decoded("None", <<>>)

\* key_code - 0x80 on u8: with overflow checks (a debug build) the
\* subtraction panics below 0x80, without them (a release build) it wraps.
U8SubPanics(key_code, overflow_checks) == key_code < 128 /\ overflow_checks
U8Sub80(key_code) == (key_code + 256 - 128) % 256

\* serial_decode with the stateful table looked up before the stateless one.
serial_decode_stateful_first(key_map, key_code, overflow_checks) ==
    LET key_code_hex == Hex(key_code)
    IN  IF key_code_hex \in DOMAIN key_map.stateful
        THEN Decoded("KeyPressed", key_map.stateful[key_code_hex])
        ELSE IF key_code_hex \in DOMAIN key_map.stateless
        THEN Decoded("KeyPressed", key_map.stateless[key_code_hex])
        ELSE IF U8SubPanics(key_code, overflow_checks)
        THEN Decoded("Panic", <<>>)
        ELSE IF Hex(U8Sub80(key_code)) \in DOMAIN key_map.stateful
        THEN Decoded("KeyReleased", key_map.stateful[Hex(U8Sub80(key_code))])
        ELSE Decoded("Unknown", <<>>)

\* serial_tourbox_processor: the event built from one byte read.
serial_decode(key_map, key_code, overflow_checks) ==
    LET key_code_hex == Hex(key_code)
    IN  IF key_code_hex \in DOMAIN key_map.stateless
        THEN Decoded("KeyPressed", key_map.stateless[key_code_hex])
        ELSE IF key_code_hex \in DOMAIN key_map.stateful
        THEN Decoded("KeyPressed", key_map.stateful[key_code_hex])
        ELSE IF U8SubPanics(key_code, overflow_checks)
        THEN Decoded("Panic", <<>>)
        ELSE IF Hex(U8Sub80(key_code)) \in DOMAIN key_map.stateful
        THEN Decoded("KeyReleased", key_map.stateful[Hex(U8Sub80(key_code))])
        ELSE Decoded("Unknown", <<>>)

\* winusb_tourbox_processor: the event built from read_buf[0] of one bulk
\* read.
winusb_decode(key_map, key_code, overflow_checks) ==
    LET key_code_hex == Hex(key_code)
    IN  IF key_code_hex \in DOMAIN key_map.stateless
        THEN Decoded("KeyPressed", key_map.stateless[key_code_hex])
        ELSE IF key_code_hex \in DOMAIN key_map.stateful
        THEN Decoded("KeyPressed", key_map.stateful[key_code_hex])
        ELSE IF U8SubPanics(key_code, overflow_checks)
        THEN Decoded("Panic", <<>>)
        ELSE IF Hex(U8Sub80(key_code)) \in DOMAIN key_map.stateful
        THEN Decoded("KeyReleased", key_map.stateful[Hex(U8Sub80(key_code))])
        ELSE Decoded("Unknown", <<>>)

(***************************************************************************)
(* Configurations (config.rs: Config, KeyMap, TourBoxDevice).              *)
(***************************************************************************)
tall == <<"t","a","l","l">>
top == <<"t","o","p">>
side == <<"s","i","d","e">>
short == <<"s","h","o","r","t">>

CTRL == <<"C","T","R","L">>
ctrl == <<"c","t","r","l">>
SHIFT == <<"S","H","I","F","T">>
SPACE == <<"S","P","A","C","E">>
ENTER == <<"E","N","T","E","R">>
FOO == <<"F","O","O">>
AT65 == <<"@","6","5">>
kA == <<"A">>
kC == <<"C">>
kV == <<"V">>
kX == <<"X">>
kY == <<"Y">>

Join(a, b) == a \o Plus \o b

EmptyMap == [x \in {} |-> <<>>]

\* A key_map whose stateful table gives the i-th name the press code i.
StatefulOf(names) ==
    [h \in {Hex(i) : i \in 1..Len(names)} |->
        names[CHOOSE i \in 1..Len(names) : Hex(i) = h]]

Config(device, stateful, stateless, ms) ==
    [device |-> device,
     key_map |-> [stateful |-> stateful, stateless |-> stateless],
     mappings |-> ms]

ProcConfig(names, ms) == Config("serial", StatefulOf(names), EmptyMap, ms)

\* The scenarios of the specification.
CfgS1 == ProcConfig(<<short, tall>>,
            <<KeyMappingConfig(short, SPACE, "OnPress")>>)
CfgS2 == ProcConfig(<<tall, top>>,
            <<KeyMappingConfig(tall, Join(CTRL, kC), "OnHold")>>)
CfgS3 == ProcConfig(<<tall, top>>,
            <<KeyMappingConfig(top, kX, "OnPress"),
              KeyMappingConfig(Join(tall, top), kY, "OnPress")>>)
CfgS4 == ProcConfig(<<tall, top, side>>,
            <<KeyMappingConfig(Join(tall, top), Join(CTRL, kC), "OnHold"),
              KeyMappingConfig(Join(tall, side), Join(CTRL, kV), "OnHold")>>)
CfgS5 == ProcConfig(<<short, tall>>,
            <<KeyMappingConfig(short, ENTER, "OnRelease")>>)

\* Two unmodified holds whose actions share a host key.
CfgSharedHold == ProcConfig(<<tall, top>>,
            <<KeyMappingConfig(tall, Join(CTRL, kC), "OnHold"),
              KeyMappingConfig(top, Join(CTRL, kV), "OnHold")>>)
\* A click inside a hold that shares its modifier.
CfgClickInHold == ProcConfig(<<tall, top>>,
            <<KeyMappingConfig(tall, CTRL, "OnHold"),
              KeyMappingConfig(Join(tall, top), Join(CTRL, kC), "OnPress"),
              KeyMappingConfig(top, CTRL, "OnRelease")>>)
\* Actions with a token parse_key rejects.
CfgUnknownClick == ProcConfig(<<tall, top>>,
            <<KeyMappingConfig(top, Join(CTRL, FOO), "OnPress"),
              KeyMappingConfig(tall, Join(FOO, kC), "OnRelease")>>)
CfgUnknownHold == ProcConfig(<<tall, top>>,
            <<KeyMappingConfig(tall, Join(CTRL, FOO), "OnHold"),
              KeyMappingConfig(top, Join(kA, kA), "OnPress")>>)
\* The wheel, a raw virtual key code and an empty token.
CfgWheel == ProcConfig(<<tall, top>>,
            <<KeyMappingConfig(tall, WHEEL_UP, "OnPress"),
              KeyMappingConfig(top, <<"w","h","e","e","l","_","d","o","w","n">>,
                               "OnRelease")>>)
CfgRaw == ProcConfig(<<tall, top>>,
            <<KeyMappingConfig(tall, Join(AT65, kA), "OnHold"),
              KeyMappingConfig(top, CTRL \o Plus, "OnPress")>>)
\* Superseding holds whose shared host key is spelled in two cases.
CfgCase == ProcConfig(<<tall, top, side>>,
            <<KeyMappingConfig(Join(tall, top), Join(ctrl, kC), "OnHold"),
              KeyMappingConfig(Join(tall, side), Join(CTRL, kV), "OnHold")>>)
\* A hold on a key and a hold that has the key as its modifier.
CfgNested == ProcConfig(<<tall, top, side>>,
            <<KeyMappingConfig(tall, SHIFT, "OnHold"),
              KeyMappingConfig(Join(tall, top), Join(SHIFT, kA), "OnHold"),
              KeyMappingConfig(side, Join(kX, kY), "OnHold")>>)
\* A mapping whose modifier is its own trigger key.
CfgSelf == ProcConfig(<<tall, top>>,
            <<KeyMappingConfig(Join(top, top), kX, "OnHold"),
              KeyMappingConfig(Join(top, top), kY, "OnRelease")>>)

\* A hold without modifiers, and a hold that shares a token with it, is
\* superseded by a third and has a release click on its trigger key.
CfgKeptShare == ProcConfig(<<tall, top, side>>,
            <<KeyMappingConfig(side, Join(CTRL, kX), "OnHold"),
              KeyMappingConfig(tall, Join(CTRL, kY), "OnHold"),
              KeyMappingConfig(Join(tall, top), kA, "OnHold"),
              KeyMappingConfig(tall, kV, "OnRelease")>>)

\* A mapping whose keys string is empty.
CfgEmptyKeys == ProcConfig(<<tall, top>>,
            <<KeyMappingConfig(<<>>, kX, "OnPress"),
              KeyMappingConfig(top, kY, "OnPress")>>)

ScenarioConfigs ==
    {CfgS1, CfgS2, CfgS3, CfgS4, CfgS5, CfgSharedHold, CfgClickInHold,
     CfgUnknownClick, CfgUnknownHold, CfgWheel, CfgRaw, CfgCase, CfgNested,
     CfgSelf, CfgEmptyKeys, CfgKeptShare}

\* Every ordered pair of mappings triggered by top, with or without the
\* modifier tall, in each timing.
PairKeys == {top, Join(tall, top)}
PairConfigs ==
    {ProcConfig(<<tall, top>>,
                <<KeyMappingConfig(k1, kX, t1), KeyMappingConfig(k2, kY, t2)>>) :
        <<k1, t1, k2, t2>> \in
            PairKeys \X KeyTriggerTiming \X PairKeys \X KeyTriggerTiming}

ProcConfigs == ScenarioConfigs \cup PairConfigs

\* The device key names of a key_map.
KeyNames(key_map) ==
    {key_map.stateful[h] : h \in DOMAIN key_map.stateful}
    \cup {key_map.stateless[h] : h \in DOMAIN key_map.stateless}

(***************************************************************************)
(* State.                                                                  *)
(***************************************************************************)
VARIABLES
    cfg,              \* Arc<Config>, shared read-only
    overflow_checks,  \* the build: TRUE debug (overflow panics), FALSE release
    transport_pc,     \* transport thread: "read", "panicked"
    read_buf,         \* the bytes of the transport's last read
    decoded,          \* what the transport made of its last read
    entrys,           \* KeyMappingProcessor.entrys
    mappings,         \* KeyMappingProcessor.mappings
    pressed_key,      \* KeyMappingProcessor.pressed_key
    output_action,    \* KeyMappingProcessor.output_action
    active_key,       \* KeySender.active_key
    host_down,        \* the host keys enigo has physically down
    pc,               \* processor thread: "recv", "send", "panicked"
    pending,          \* the actions of the current event not yet sent
    last_send,        \* the last send_key call of the current event
    app_open,         \* whether the receiver of app_sender still exists
    hist,             \* one record per event processed so far
    handle,           \* the transport's device handle: "none", "open"
    iface,            \* USB interface 1: "unclaimed", "claimed", "released"
    t_last,           \* the last turn the transport thread took
    queue,            \* the events in the channel tourbox_sender -> tourbox_receiver
    emitted,          \* every event the decoder has sent, in order
    main_tx,          \* whether main still holds its tourbox_sender
    recv_result,      \* the result of the processor's last recv(): "none", "ok", "err"
    injected          \* every action handed to send_key, with its event's number

vars == <<cfg, overflow_checks, transport_pc, read_buf, decoded, entrys,
          mappings, pressed_key, output_action, active_key, host_down, pc,
          pending, last_send, app_open, hist, handle, iface, t_last, queue,
          emitted, main_tx, recv_result, injected>>

transport_vars == <<overflow_checks, transport_pc, read_buf, decoded>>
processor_vars == <<pressed_key, output_action>>
sender_vars == <<active_key, host_down>>
thread_vars == <<pc, pending, last_send, hist, recv_result, injected>>
device_vars == <<handle, iface, t_last>>
channel_vars == <<queue, emitted, main_tx>>

NoSend ==
    [action |-> NoAction, ok |-> TRUE, err |-> <<>>, ops |-> <<>>,
     active_before |-> {}, down_before |-> {}]

\* The transport thread has taken no turn yet.
NoTurn == [op |-> "none", emitted |-> 0, gone |-> FALSE]

\* std::sync::mpsc: send appends to the channel, recv takes its oldest
\* message.
channel_send_front(q, ev) == <<ev>> \o q
channel_send(q, ev) == Append(q, ev)
channel_recv(q) == [msg |-> Head(q), rest |-> Tail(q)]

\* The state after main has loaded config and the processor thread has run
\* KeyMappingProcessor::from_config and KeySender::new, with the transport
\* thread at tpc: "init" before its first initialize, "read" once the device
\* is open.
InitState(c, checks, tpc) ==
    /\ cfg = c
    /\ overflow_checks = checks
    /\ transport_pc = tpc
    /\ read_buf = <<>>
    /\ decoded = NotDecoded
    /\ entrys = from_config_entrys(c.mappings)
    /\ mappings = from_config_mappings(c.mappings)
    /\ pressed_key = {}
    /\ output_action = <<>>
    /\ active_key = {}
    /\ host_down = {}
    /\ pc = IF from_config_panics(c.mappings) THEN "panicked" ELSE "recv"
    /\ pending = <<>>
    /\ last_send = NoSend
    /\ app_open = TRUE
    /\ hist = <<>>
    /\ handle = IF tpc = "read" THEN "open" ELSE "none"
    /\ iface = IF tpc = "read" /\ c.device = "winusb" THEN "claimed"
               ELSE "unclaimed"
    /\ t_last = NoTurn
    /\ queue = <<>>
    /\ emitted = <<>>
    /\ main_tx = TRUE
    /\ recv_result = "none"
    /\ injected = <<>>

InitWith(c, checks) == InitState(c, checks, "read")

(***************************************************************************)
(* The processor thread of main: recv, process, then send_key and          *)
(* app_sender.send for each action.                                        *)
(***************************************************************************)
\* recv() has returned Ok(ev): processor.process(ev) runs.
Handle(ev) ==
    /\ LET r == process(entrys, mappings, pressed_key, output_action, ev)
       IN  /\ pressed_key' = r.pressed_key
           /\ output_action' = r.output_action
           /\ pending' = r.key_actions
           /\ pc' = IF r.key_actions = <<>> THEN "recv" ELSE "send"
           /\ hist' = Append(hist, [ev |-> ev,
                                    pressed |-> pressed_key,
                                    held |-> output_action,
                                    actived |-> r.actived,
                                    out |-> r.key_actions])
    /\ last_send' = NoSend
    /\ recv_result' = "ok"
    /\ UNCHANGED <<cfg, entrys, mappings, active_key, host_down, app_open,
                   injected, emitted, main_tx>>
    /\ UNCHANGED <<transport_vars, device_vars>>

\* tourbox_receiver.recv() returns ev, whatever the decoder: the processor
\* thread on its own.
Recv(ev) ==
    /\ pc = "recv"
    /\ Len(hist) < MaxEvents
    /\ Handle(ev)
    /\ UNCHANGED queue

\* tourbox_receiver.recv() returns the oldest event of the channel.
RecvQueue ==
    /\ pc = "recv"
    /\ Len(hist) < MaxEvents
    /\ queue # <<>>
    /\ Handle(channel_recv(queue).msg)
    /\ queue' = channel_recv(queue).rest

\* tourbox_receiver.recv() returns Err on the empty channel whose senders
\* are all gone; .ok() makes it None, the if let is skipped and the loop
\* goes round.
RecvClosed ==
    /\ pc = "recv"
    /\ queue = <<>>
    /\ ~main_tx
    /\ transport_pc \in {"exited", "panicked"}
    /\ recv_result' = "err"
    /\ pc' = "recv"
    /\ UNCHANGED <<cfg, entrys, mappings, app_open, pending, last_send, hist,
                   injected>>
    /\ UNCHANGED <<processor_vars, sender_vars, transport_vars, device_vars,
                   channel_vars>>

\* One turn of the for loop: key_sender.send_key(&v), an Err only logged,
\* then app_sender.send(v).expect(..), which panics once the app is gone.
SendAction ==
    /\ pc = "send"
    /\ LET v == Head(pending)
           r == send_key(active_key, v)
       IN  /\ active_key' = r.active_key
           /\ host_down' = ApplyOps(host_down, r.ops)
           /\ last_send' = [action |-> v, ok |-> r.ok, err |-> r.err,
                            ops |-> r.ops, active_before |-> active_key,
                            down_before |-> host_down]
           /\ injected' = Append(injected, <<Len(hist), v>>)
    /\ pending' = Tail(pending)
    /\ pc' = IF ~app_open THEN "panicked"
             ELSE IF Tail(pending) = <<>> THEN "recv" ELSE "send"
    /\ UNCHANGED <<cfg, entrys, mappings, app_open, hist, recv_result>>
    /\ UNCHANGED <<processor_vars, transport_vars, device_vars, channel_vars>>

\* The receiving end of app_sender is dropped.
CloseApp ==
    /\ app_open
    /\ app_open' = FALSE
    /\ UNCHANGED <<cfg, entrys, mappings>>
    /\ UNCHANGED <<processor_vars, sender_vars, thread_vars, transport_vars,
                   device_vars, channel_vars>>

InputEvents ==
    {KeyPressed(k) : k \in KeyNames(cfg.key_map)}
    \cup {KeyReleased(k) : k \in KeyNames(cfg.key_map)}

\* The transport takes no step of Spec, which starts from a release build.
Init == \E c \in ProcConfigs : InitWith(c, FALSE)

Next ==
    \/ \E ev \in InputEvents : Recv(ev)
    \/ SendAction
    \/ CloseApp

Spec == Init /\ [][Next]_vars

(***************************************************************************)
(* The transport thread: one read of the device and its decoding.          *)
(***************************************************************************)
Bytes == 0..255

\* port.read(&mut byte_buf) returns Ok(1) with the byte c.
SerialRead(c) ==
    /\ cfg.device = "serial"
    /\ transport_pc = "read"
    /\ read_buf' = <<c>>
    /\ decoded' = serial_decode(cfg.key_map, c, overflow_checks)
    /\ transport_pc' = IF decoded'.kind = "Panic" THEN "panicked" ELSE "read"
    /\ UNCHANGED <<cfg, overflow_checks, entrys, mappings, app_open>>
    /\ UNCHANGED <<processor_vars, sender_vars, thread_vars, device_vars,
                   channel_vars>>

\* handle.read_bulk(..) returns Ok(count) with count = Len(buf) > 0 bytes in
\* read_buf; only read_buf[0] is decoded.
WinusbRead(buf) ==
    /\ cfg.device = "winusb"
    /\ transport_pc = "read"
    /\ read_buf' = buf
    /\ decoded' = winusb_decode(cfg.key_map, buf[1], overflow_checks)
    /\ transport_pc' = IF decoded'.kind = "Panic" THEN "panicked" ELSE "read"
    /\ UNCHANGED <<cfg, overflow_checks, entrys, mappings, app_open>>
    /\ UNCHANGED <<processor_vars, sender_vars, thread_vars, device_vars,
                   channel_vars>>

\* The code tables the decoder is checked on: every way of entering the
\* codes 0x01 and 0x81 in the two tables, and tables with the codes at the
\* ends of the two halves of the byte range, with a code in upper case and
\* with a code that is not padded to two digits.
MapOf(pairs) ==
    [h \in {pairs[i][1] : i \in 1..Len(pairs)} |->
        pairs[CHOOSE i \in 1..Len(pairs) : pairs[i][1] = h][2]]

StatefulPair == MapOf(<<<<Hex(1), tall>>, <<Hex(129), top>>>>)
StatelessPair == MapOf(<<<<Hex(1), side>>, <<Hex(129), short>>>>)
Restrict(f, S) == [h \in S |-> f[h]]

PairKeyMaps ==
    {[stateful |-> Restrict(StatefulPair, S1), stateless |-> Restrict(StatelessPair, S2)] :
        <<S1, S2>> \in (SUBSET DOMAIN StatefulPair) \X (SUBSET DOMAIN StatelessPair)}

EdgeKeyMaps ==
    {[stateful |-> MapOf(<<<<Hex(0), tall>>, <<Hex(127), top>>, <<Hex(255), side>>>>),
      stateless |-> MapOf(<<<<Hex(128), short>>>>)],
     [stateful |-> MapOf(<<<<<<"0","x","0","A">>, tall>>, <<<<"0","x","1">>, top>>,
                           <<Hex(11), side>>>>),
      stateless |-> MapOf(<<<<<<"0","X","0","c">>, short>>>>)]}

DecoderConfigs ==
    {Config(d, km.stateful, km.stateless, CfgS2.mappings) :
        <<d, km>> \in {"serial", "winusb"} \X (PairKeyMaps \cup EdgeKeyMaps)}

\* The bulk reads of the model: every single byte, and reads of up to
\* MaxBulk bytes made of a press code and a release code.
RECURSIVE SampleReads(_)
SampleReads(n) ==
    IF n = 0 THEN {<<>>}
    ELSE SampleReads(n - 1)
         \cup {Append(t, b) : t \in SampleReads(n - 1), b \in {1, 129}}

BulkReads == {<<c>> : c \in Bytes} \cup (SampleReads(MaxBulk) \ {<<>>})

InitDecoder == \E c \in DecoderConfigs, checks \in BOOLEAN : InitWith(c, checks)

NextDecoder ==
    \/ \E c \in Bytes : SerialRead(c)
    \/ \E buf \in BulkReads : WinusbRead(buf)

SpecDecoder == InitDecoder /\ [][NextDecoder]_vars

(***************************************************************************)
(* The whole pipeline: the transport thread (initialize, read, decode,     *)
(* send), the channel, the processor thread and main.                      *)
(***************************************************************************)
\* The receiver of the event channel lives in the processor thread and is
\* dropped when that thread unwinds.
ReceiverGone == pc = "panicked"

\* A turn of the transport thread: what it did, how many events had been
\* sent before it and whether the receiver was gone before it.
Turn(op) == [op |-> op, emitted |-> Len(emitted), gone |-> ReceiverGone]

\* The decoding of the configured transport.
decode(c, key_code, checks) ==
    IF c.device = "serial" THEN serial_decode(c.key_map, key_code, checks)
    ELSE winusb_decode(c.key_map, key_code, checks)

\* release_interface that releases nothing.
release_interface_never(c, i) == i

\* handle.release_interface(1), which only the USB transport calls.
release_interface(c, i) == IF c.device = "winusb" THEN "released" ELSE i

\* initialize_serial_device / initialize_winusb_device returns Ok or Err; the
\* Err arm goes on to sleep.
TransportInit(ok) ==
    /\ transport_pc = "init"
    /\ IF ok
       THEN /\ handle' = "open"
            /\ iface' = IF cfg.device = "winusb" THEN "claimed" ELSE iface
            /\ transport_pc' = "read"
            /\ t_last' = Turn("init_ok")
       ELSE /\ transport_pc' = "sleep"
            /\ t_last' = Turn("init_err")
            /\ UNCHANGED <<handle, iface>>
    /\ UNCHANGED <<cfg, overflow_checks, read_buf, decoded, entrys, mappings,
                   app_open>>
    /\ UNCHANGED <<processor_vars, sender_vars, thread_vars, channel_vars>>

\* thread::sleep(Duration::from_secs(5)) of the Err arm, then the loop calls
\* initialize again.
TransportSleep ==
    /\ transport_pc = "sleep"
    /\ transport_pc' = "init"
    /\ t_last' = Turn("sleep")
    /\ UNCHANGED <<cfg, overflow_checks, read_buf, decoded, entrys, mappings,
                   app_open, handle, iface>>
    /\ UNCHANGED <<processor_vars, sender_vars, thread_vars, channel_vars>>

\* One turn of the read loop whose read returns Ok(count), count > 0, with
\* buf: the first byte is decoded and the event, if any, is sent; a failed
\* send ends the thread, the USB transport releasing the interface first.
TransportRead(buf) ==
    /\ transport_pc = "read"
    /\ LET d == decode(cfg, buf[1], overflow_checks)
           ev == [kind |-> d.kind, key |-> d.key]
       IN  /\ read_buf' = buf
           /\ decoded' = d
           /\ CASE d.kind = "Panic" ->
                     /\ transport_pc' = "panicked"
                     /\ handle' = "none"
                     /\ t_last' = Turn("panic")
                     /\ UNCHANGED <<iface, queue, emitted>>
                [] d.kind = "Unknown" ->
                     /\ t_last' = Turn("unknown")
                     /\ UNCHANGED <<transport_pc, handle, iface, queue, emitted>>
                [] d.kind \in {"KeyPressed", "KeyReleased"} /\ ~ReceiverGone ->
                     /\ Len(emitted) < MaxEmitted
                     /\ queue' = channel_send(queue, ev)
                     /\ emitted' = Append(emitted, ev)
                     /\ t_last' = Turn("sent")
                     /\ UNCHANGED <<transport_pc, handle, iface>>
                [] d.kind \in {"KeyPressed", "KeyReleased"} /\ ReceiverGone ->
                     /\ iface' = release_interface(cfg, iface)
                     /\ handle' = "none"
                     /\ transport_pc' = "exited"
                     /\ t_last' = Turn("send_err")
                     /\ UNCHANGED <<queue, emitted>>
    /\ UNCHANGED <<cfg, overflow_checks, entrys, mappings, app_open, main_tx>>
    /\ UNCHANGED <<processor_vars, sender_vars, thread_vars>>

\* The read returns Ok(0) or a timeout: nothing is done.
TransportTimeout ==
    /\ transport_pc = "read"
    /\ t_last' = Turn("timeout")
    /\ UNCHANGED <<cfg, overflow_checks, transport_pc, read_buf, decoded,
                   entrys, mappings, app_open, handle, iface>>
    /\ UNCHANGED <<processor_vars, sender_vars, thread_vars, channel_vars>>

\* The read returns another Err: the USB transport releases the interface,
\* the inner loop is left, the handle is dropped and the outer loop starts
\* over with initialize.
TransportError ==
    /\ transport_pc = "read"
    /\ iface' = release_interface(cfg, iface)
    /\ handle' = "none"
    /\ transport_pc' = "init"
    /\ t_last' = Turn("read_err")
    /\ UNCHANGED <<cfg, overflow_checks, read_buf, decoded, entrys, mappings,
                   app_open>>
    /\ UNCHANGED <<processor_vars, sender_vars, thread_vars, channel_vars>>

\* eframe::run_native returns and main ends: its tourbox_sender is dropped.
MainReturn ==
    /\ main_tx
    /\ main_tx' = FALSE
    /\ UNCHANGED <<cfg, entrys, mappings, app_open, queue, emitted>>
    /\ UNCHANGED <<processor_vars, sender_vars, thread_vars, transport_vars,
                   device_vars>>

\* A device whose key top (0x02) is in the stateless table, with a hold on
\* top and a click that has top as its modifier.
CfgStateless ==
    Config("serial", StatefulOf(<<tall>>), MapOf(<<<<Hex(2), top>>>>),
           <<KeyMappingConfig(top, Join(CTRL, kC), "OnHold"),
             KeyMappingConfig(Join(top, tall), kX, "OnPress")>>)

\* The devices of the pipeline have the keys tall (0x01) and top (0x02).
PipeConfigs ==
    {Config("serial", StatefulOf(<<tall, top>>), EmptyMap, CfgS2.mappings),
     Config("winusb", StatefulOf(<<tall, top>>), EmptyMap,
            CfgSharedHold.mappings),
     CfgStateless}

\* The press and release codes of the two keys and a code of no key.
PipeBytes == {1, 2, 129, 130, 3}

\* A serial read gives one byte; a bulk read may give more.
PipeReads ==
    {<<c>> : c \in PipeBytes}
    \cup (IF cfg.device = "winusb" THEN {<<1, 129>>} ELSE {})

InitPipeline ==
    \E c \in PipeConfigs, checks \in BOOLEAN : InitState(c, checks, "init")

TransportNext ==
    \/ \E ok \in BOOLEAN : TransportInit(ok)
    \/ TransportSleep
    \/ \E buf \in PipeReads : TransportRead(buf)
    \/ TransportTimeout
    \/ TransportError

ProcessorNext ==
    \/ RecvQueue
    \/ RecvClosed
    \/ SendAction

NextPipeline ==
    \/ TransportNext
    \/ ProcessorNext
    \/ CloseApp
    \/ MainReturn

\* Both threads keep being scheduled; what a read returns is up to the
\* device.
SpecPipeline ==
    /\ InitPipeline
    /\ [][NextPipeline]_vars
    /\ WF_vars(TransportNext)
    /\ WF_vars(ProcessorNext)

(***************************************************************************)
(* Properties.                                                             *)
(***************************************************************************)
\* The record of the last event processed.
Last == hist[Len(hist)]
Events == [i \in 1..Len(hist) |-> hist[i].ev]
\* The entry selected for the last event.
LastEntry == entrys[Last.actived]
Tokens(action) == Range(split(action, "+"))

\* C1: every entry in output_action has its trigger_key and all of its
\* modifiers in pressed_key, and after a KeyReleased(k) no entry of
\* output_action has k as trigger_key or modifier.
C1_HeldKeysPressed ==
    /\ \A i \in 1..Len(output_action) :
          LET e == entrys[output_action[i]]
          IN  /\ e.trigger_key \in pressed_key
              /\ Range(e.modifier) \subseteq pressed_key
    /\ (hist # <<>> /\ Last.ev.kind = "KeyReleased") =>
          \A i \in 1..Len(output_action) :
             LET e == entrys[output_action[i]]
             IN  e.trigger_key # Last.ev.key /\ Last.ev.key \notin Range(e.modifier)

\* A release took one hold away and left another one held.
C1_Witness ==
    /\ hist # <<>>
    /\ Last.ev.kind = "KeyReleased"
    /\ output_action # <<>>
    /\ Len(output_action) < Len(Last.held)

\* The host keys named by the actions of the entries in output_action.
HeldHostKeys ==
    UNION {{parse_key(t).key : t \in Tokens(entrys[output_action[i]].action)} :
              i \in 1..Len(output_action)}

\* Every token of every action of the configuration parses (the wheel
\* actions are clicks that are never parsed).
AllParseable ==
    \A i \in 1..Len(entrys) :
        \/ /\ entrys[i].trigger # "OnHold"
           /\ to_uppercase(entrys[i].action) \in {WHEEL_UP, WHEEL_DOWN}
        \/ \A t \in Tokens(entrys[i].action) : parse_key(t).ok

\* C2: once all actions of an event are sent (all tokens parseable),
\* active_key is exactly the set of host keys named by the actions of the
\* entries in output_action.
C2_ActiveEqualsHeld ==
    (pc = "recv" /\ AllParseable) => active_key = HeldHostKeys

\* C3: from the empty state, KeyPressed(k) then KeyReleased(k), for a key k
\* whose one mapping is an unmodified OnHold of action A+B, give
\* [KeyPress(A), KeyPress(B)] and then [KeyRelease(A), KeyRelease(B)], and
\* leave pressed_key and output_action empty; so for tall -> CTRL+C.
C3_RoundTrip ==
    /\ \A k \in KeyNames(cfg.key_map) :
          (/\ Events = <<KeyPressed(k), KeyReleased(k)>>
           /\ k \in DOMAIN mappings
           /\ Len(mappings[k]) = 1
           /\ entrys[mappings[k][1]].trigger = "OnHold"
           /\ entrys[mappings[k][1]].modifier = <<>>
           /\ Len(split(entrys[mappings[k][1]].action, "+")) = 2)
          => LET t == split(entrys[mappings[k][1]].action, "+")
             IN  /\ hist[1].out = <<KeyPress(t[1]), KeyPress(t[2])>>
                 /\ hist[2].out = <<KeyRelease(t[1]), KeyRelease(t[2])>>
                 /\ pressed_key = {}
                 /\ output_action = <<>>
    /\ (cfg = CfgS2 /\ Events = <<KeyPressed(tall), KeyReleased(tall)>>)
          => /\ hist[1].out = <<KeyPress(CTRL), KeyPress(kC)>>
             /\ hist[2].out = <<KeyRelease(CTRL), KeyRelease(kC)>>

\* The round trip of tall -> CTRL+C has been processed and sent.
C3_Witness ==
    /\ cfg = CfgS2
    /\ Events = <<KeyPressed(tall), KeyReleased(tall)>>
    /\ pc = "recv"

\* A held entry h is superseded by the selected entry e: they share a
\* modifier, or the trigger key of h is a modifier of e.
SupersededBy(e, h) ==
    \/ Range(e.modifier) \cap Range(h.modifier) # {}
    \/ h.trigger_key \in Range(e.modifier)

ReleasedTokens(out) == {out[j].s : j \in {n \in 1..Len(out) : out[n].kind = "KeyRelease"}}

\* C4: when KeyPressed(k) selects an OnHold entry E, the KeyRelease actions
\* of the event name exactly the tokens of the superseded entries that are
\* not tokens of E.action, and never a token of E.action; with H1 =
\* tall+top -> CTRL+C held, KeyPressed(side) gives KeyRelease(C),
\* KeyPress(CTRL), KeyPress(V), and KeyReleased(tall) then gives
\* KeyRelease(CTRL), KeyRelease(V).
C4_SupersedeKeepsShared ==
    /\ (/\ hist # <<>>
        /\ Last.ev.kind = "KeyPressed"
        /\ Last.actived # 0
        /\ LastEntry.trigger = "OnHold")
       => /\ ReleasedTokens(Last.out) =
                UNION {Tokens(entrys[Last.held[i]].action) \ Tokens(LastEntry.action) :
                          i \in {n \in 1..Len(Last.held) :
                                    SupersededBy(LastEntry, entrys[Last.held[n]])}}
          /\ ReleasedTokens(Last.out) \cap Tokens(LastEntry.action) = {}
    /\ (/\ cfg = CfgS4
        /\ Len(hist) >= 3
        /\ SubSeq(Events, 1, 3) = <<KeyPressed(tall), KeyPressed(top), KeyPressed(side)>>)
       => /\ hist[2].out = <<KeyPress(CTRL), KeyPress(kC)>>
          /\ hist[3].out = <<KeyRelease(kC), KeyPress(CTRL), KeyPress(kV)>>
          /\ (Len(hist) >= 4 /\ hist[4].ev = KeyReleased(tall))
                => hist[4].out = <<KeyRelease(CTRL), KeyRelease(kV)>>

\* The supersession scenario has run to its end.
C4_Witness ==
    /\ cfg = CfgS4
    /\ Events = <<KeyPressed(tall), KeyPressed(top), KeyPressed(side), KeyReleased(tall)>>
    /\ pc = "recv"

\* C5: after send_key(KeyClick(s)) returns, with Ok or with UnknownKey, the
\* host keys physically down are the ones that were down before the click.
C5_ClickAtomic ==
    last_send.action.kind = "KeyClick" => host_down = last_send.down_before

\* C6: send_key(KeyClick(s)) never presses or releases a host key that is
\* in active_key and never changes active_key; a click whose tokens are all
\* in active_key makes no enigo call.
C6_ClickLeavesActive ==
    last_send.action.kind = "KeyClick" =>
        /\ active_key = last_send.active_before
        /\ \A i \in 1..Len(last_send.ops) :
              last_send.ops[i].op \in {"Press", "Release"}
                  => last_send.ops[i].key \notin last_send.active_before
        /\ (\A t \in Tokens(last_send.action.s) :
               parse_key(t).ok /\ parse_key(t).key \in last_send.active_before)
              => last_send.ops = <<>>

\* A click all of whose keys were held by an OnHold action.
C6_Witness ==
    /\ last_send.action.kind = "KeyClick"
    /\ last_send.active_before # {}
    /\ \A t \in Tokens(last_send.action.s) :
          parse_key(t).ok /\ parse_key(t).key \in last_send.active_before

\* C7: a byte c in [0x80, 0xFF] is decoded first match wins: stateless[hex(c)]
\* gives KeyPressed, else stateful[hex(c)] gives KeyPressed, else
\* stateful[hex(c - 0x80)] gives KeyReleased, else the byte is dropped; on
\* the serial and on the USB transport alike.
C7_ResolutionOrder ==
    (read_buf # <<>> /\ read_buf[1] >= 128) =>
        LET c == read_buf[1]
            km == cfg.key_map
        IN  /\ transport_pc = "read"
            /\ decoded =
                  IF Hex(c) \in DOMAIN km.stateless
                  THEN Decoded("KeyPressed", km.stateless[Hex(c)])
                  ELSE IF Hex(c) \in DOMAIN km.stateful
                  THEN Decoded("KeyPressed", km.stateful[Hex(c)])
                  ELSE IF Hex(c - 128) \in DOMAIN km.stateful
                  THEN Decoded("KeyReleased", km.stateful[Hex(c - 128)])
                  ELSE Decoded("Unknown", <<>>)

\* The USB transport has decoded 0x81 as the release of the key of 0x01.
C7_Witness ==
    /\ cfg.device = "winusb"
    /\ read_buf # <<>>
    /\ read_buf[1] = 129
    /\ Hex(1) \in DOMAIN cfg.key_map.stateful
    /\ decoded = Decoded("KeyReleased", cfg.key_map.stateful[Hex(1)])

\* C8: a byte c < 0x80 that is in neither table is dropped: no event is
\* made of it and the transport goes on reading.
C8_NoUnderflow ==
    (/\ read_buf # <<>>
     /\ read_buf[1] < 128
     /\ Hex(read_buf[1]) \notin DOMAIN cfg.key_map.stateless
     /\ Hex(read_buf[1]) \notin DOMAIN cfg.key_map.stateful)
    => decoded = Decoded("Unknown", <<>>) /\ transport_pc = "read"

\* The score of the specification: the number of modifiers plus the bonus
\* of the timing for the kind of event.
Bonus(trigger, kind) ==
    IF trigger = "OnHold" THEN 1000
    ELSE IF (trigger = "OnPress") = (kind = "KeyPressed") THEN 1000
    ELSE -1000
SpecScore(e, kind) == Len(e.modifier) + Bonus(e.trigger, kind)

\* The candidates of the last event that passed the modifier filter, as
\* positions in mappings[k], and those of them with the maximum score.
Candidates ==
    IF Last.ev.key \in DOMAIN mappings THEN mappings[Last.ev.key] ELSE <<>>
Survivors ==
    {i \in 1..Len(Candidates) :
        Range(entrys[Candidates[i]].modifier) \subseteq Last.pressed}
MaxSurvivors ==
    {i \in Survivors :
        \A j \in Survivors :
            SpecScore(entrys[Candidates[j]], Last.ev.kind)
                <= SpecScore(entrys[Candidates[i]], Last.ev.kind)}
Min(S) == CHOOSE x \in S : \A y \in S : x <= y
Max(S) == CHOOSE x \in S : \A y \in S : y <= x

\* C9: of several surviving candidates with the same maximum score the one
\* that comes first in mappings[k] is selected.
C9_FirstOfTies ==
    (hist # <<>> /\ Survivors # {}) => Last.actived = Candidates[Min(MaxSurvivors)]

\* C9, amended: of several surviving candidates with the same maximum score
\* the one that comes last in mappings[k] is selected; nothing is selected
\* only if no candidate survives.
C9_LastOfTies ==
    hist # <<>> =>
        IF Survivors = {} THEN Last.actived = 0
        ELSE Last.actived = Candidates[Max(MaxSurvivors)]

\* Two candidates tied at the maximum score.
C9_Witness == hist # <<>> /\ Cardinality(MaxSurvivors) >= 2

SurvivorTimings == {entrys[Candidates[i]].trigger : i \in Survivors}

\* C10: on KeyPressed an OnRelease entry is never selected if an OnPress or
\* OnHold candidate survives; on KeyReleased an OnRelease entry is selected
\* if an OnRelease candidate survives.
C10_TimingOutranks ==
    (hist # <<>> /\ Survivors # {}) =>
        /\ (Last.ev.kind = "KeyPressed" /\ SurvivorTimings \cap {"OnPress", "OnHold"} # {})
              => LastEntry.trigger # "OnRelease"
        /\ (Last.ev.kind = "KeyReleased" /\ "OnRelease" \in SurvivorTimings)
              => LastEntry.trigger = "OnRelease"

\* C10, amended: on KeyPressed an OnRelease entry is never selected if an
\* OnPress or OnHold candidate survives; on KeyReleased an OnPress entry is
\* never selected if an OnRelease candidate survives, and an OnRelease entry
\* is selected if moreover no OnHold candidate survives.
C10_TimingOutranksButHold ==
    (hist # <<>> /\ Survivors # {}) =>
        /\ (Last.ev.kind = "KeyPressed" /\ SurvivorTimings \cap {"OnPress", "OnHold"} # {})
              => LastEntry.trigger # "OnRelease"
        /\ (Last.ev.kind = "KeyReleased" /\ "OnRelease" \in SurvivorTimings)
              => /\ LastEntry.trigger # "OnPress"
                 /\ "OnHold" \notin SurvivorTimings => LastEntry.trigger = "OnRelease"

\* On a release an OnRelease entry was selected over an OnPress candidate
\* with more modifiers.
C10_Witness ==
    /\ hist # <<>>
    /\ Last.ev.kind = "KeyReleased"
    /\ Last.actived # 0
    /\ LastEntry.trigger = "OnRelease"
    /\ \E i \in Survivors :
          /\ entrys[Candidates[i]].trigger = "OnPress"
          /\ Len(entrys[Candidates[i]].modifier) > Len(LastEntry.modifier)

\* C11: the selected entry has at least as many modifiers as every surviving
\* candidate with the same timing bonus; with top -> X and tall+top -> Y both
\* OnPress, Pressed(top) alone emits Click(X), Pressed(tall), Pressed(top)
\* emits Click(Y) on the second event, and the following Released(top),
\* Released(tall) emit nothing.
C11_MostModifiersWins ==
    /\ (hist # <<>> /\ Last.actived # 0) =>
          \A i \in Survivors :
             Bonus(entrys[Candidates[i]].trigger, Last.ev.kind)
                   = Bonus(LastEntry.trigger, Last.ev.kind)
                => Len(entrys[Candidates[i]].modifier) <= Len(LastEntry.modifier)
    /\ (cfg = CfgS3 /\ hist # <<>>) =>
          /\ Events[1] = KeyPressed(top) => hist[1].out = <<KeyClick(kX)>>
          /\ (Len(hist) >= 2 /\ SubSeq(Events, 1, 2) = <<KeyPressed(tall), KeyPressed(top)>>)
                => /\ hist[1].out = <<>>
                   /\ hist[2].out = <<KeyClick(kY)>>
                   /\ (Len(hist) >= 3 /\ Events[3] = KeyReleased(top))
                         => hist[3].out = <<>>
                   /\ (Len(hist) >= 4 /\ Events[3] = KeyReleased(top)
                          /\ Events[4] = KeyReleased(tall))
                         => hist[4].out = <<>>

\* The whole of scenario S3 has run.
C11_Witness ==
    /\ cfg = CfgS3
    /\ Events = <<KeyPressed(tall), KeyPressed(top), KeyReleased(top),
                  KeyReleased(tall)>>
    /\ pc = "recv"

\* The actions of the events 1..n in the order process listed them, each
\* with the number of its event.
RECURSIVE Listed(_)
Listed(n) ==
    IF n = 0 THEN <<>>
    ELSE Listed(n - 1) \o [j \in 1..Len(hist[n].out) |-> <<n, hist[n].out[j]>>]

IsPrefix(a, b) == Len(a) <= Len(b) /\ SubSeq(b, 1, Len(a)) = a

\* C12: the events the processor has handled, followed by those still in the
\* channel, are the events the decoder sent, in order; the actions handed to
\* send_key are the actions process listed, in order; and when event n+1 has
\* been taken every action of the events up to n has been handed to
\* send_key.
C12_PipelineOrder ==
    /\ Events \o queue = emitted
    /\ IsPrefix(injected, Listed(Len(hist)))
    /\ hist # <<>> => IsPrefix(Listed(Len(hist) - 1), injected)
    /\ pc # "panicked" =>
          injected \o [j \in 1..Len(pending) |-> <<Len(hist), pending[j]>>]
              = Listed(Len(hist))

\* Two events with two actions each have gone through while a third waits in
\* the channel.
C12_Witness ==
    /\ Len(hist) = 2
    /\ Len(hist[1].out) = 2
    /\ Len(hist[2].out) = 2
    /\ Len(injected) = 4
    /\ queue # <<>>

\* C13: after a send_key that returned UnknownKey, active_key is as it was
\* before the call and the processor thread goes on: to the next action of
\* the event if there is one, else to the next recv.
C13_UnknownKeySkipped ==
    (last_send.action # NoAction /\ ~last_send.ok) =>
        /\ active_key = last_send.active_before
        /\ pc = IF pending # <<>> THEN "send" ELSE "recv"

\* C14: with a mapping whose keys string is empty, from_config panics: the
\* processor thread ends in construction, before any recv, and no processor
\* exists that has an entry for that mapping.
C14_EmptyKeysFatal ==
    \A i \in 1..Len(cfg.mappings) :
        cfg.mappings[i].keys = <<>> =>
            /\ from_config_panics(cfg.mappings)
            /\ pc = "panicked"
            /\ hist = <<>>

\* What C15 says of every turn of the transport thread but the one after a
\* read error: no device error or timeout ends the thread, a failed
\* initialize is followed by the sleep and the sleep by another initialize, a
\* successful initialize by reading, and a timeout leaves the thread reading
\* on the same handle with no event sent.
TransportKeepsGoing ==
    /\ t_last.op \in {"read_err", "init_err", "sleep", "init_ok", "timeout"}
          => transport_pc \notin {"exited", "panicked"}
    /\ t_last.op = "init_err" => transport_pc = "sleep" /\ handle = "none"
    /\ t_last.op = "sleep" => transport_pc = "init" /\ handle = "none"
    /\ t_last.op = "init_ok" => transport_pc = "read" /\ handle = "open"
    /\ t_last.op = "timeout" =>
          /\ transport_pc = "read"
          /\ handle = "open"
          /\ cfg.device = "winusb" => iface = "claimed"
          /\ Len(emitted) = t_last.emitted

\* The handle is released after a read error (the USB interface by
\* release_interface).
ReleasedAfterError ==
    t_last.op = "read_err" =>
        /\ handle = "none"
        /\ cfg.device = "winusb" => iface = "released"

\* C15: after a read error the transport has released the handle and waits
\* the backoff sleep before it initializes again; no device error ends the
\* thread, initialize is retried after each failure, and a timeout causes
\* neither an event nor a reconnect.
C15_SleepBeforeReconnect ==
    /\ TransportKeepsGoing
    /\ ReleasedAfterError
    /\ t_last.op = "read_err" => transport_pc = "sleep"

\* C15, amended: after a read error the transport has released the handle
\* and initializes again at once; it sleeps only after a failed initialize.
C15_ReconnectAtOnce ==
    /\ TransportKeepsGoing
    /\ ReleasedAfterError
    /\ t_last.op = "read_err" => transport_pc = "init"

\* A read error on a USB device that has decoded events before.
C15_Witness ==
    /\ t_last.op = "read_err"
    /\ cfg.device = "winusb"
    /\ emitted # <<>>
    /\ transport_pc = "init"

\* C16: once a recv of the processor thread has returned Err, the queue
\* being closed, the thread has exited.
C16_ExitsOnClosedQueue == recv_result = "err" => pc = "exited"

\* C17: a transport thread that took a turn after the receiver of the event
\* channel was gone comes to its exit: it has exited, by the return that
\* follows a failed send, or it is still running; no event is sent in such a
\* turn; and the USB transport has released interface 1 when it has exited.
C17_TransportExits ==
    /\ t_last.gone =>
          /\ transport_pc = "exited" \/ ENABLED TransportNext
          /\ Len(emitted) = t_last.emitted
    /\ transport_pc = "exited" =>
          /\ t_last.gone
          /\ t_last.op = "send_err"
          /\ handle = "none"
          /\ cfg.device = "winusb" => iface = "released"

\* C18: the processor thread survives a closed UI queue: it never panics, and
\* while actions of the current event remain it is about to hand the next of
\* them to send_key.
C18_SinkFailureNotFatal ==
    /\ pc # "panicked"
    /\ pending # <<>> => pc = "send"

\* C19: from the empty state, for a key k whose one mapping has no modifier,
\* KeyPressed(k) then KeyReleased(k) give [KeyClick(action)] and then nothing
\* if the mapping is OnPress, nothing and then [KeyClick(action)] if it is
\* OnRelease; output_action stays empty throughout and pressed_key is empty
\* at the end; so for short -> SPACE (OnPress) and short -> ENTER
\* (OnRelease).
C19_ClickCycle ==
    /\ \A k \in KeyNames(cfg.key_map) :
          (/\ hist # <<>>
           /\ Events[1] = KeyPressed(k)
           /\ k \in DOMAIN mappings
           /\ Len(mappings[k]) = 1
           /\ entrys[mappings[k][1]].modifier = <<>>
           /\ entrys[mappings[k][1]].trigger \in {"OnPress", "OnRelease"})
          => LET e == entrys[mappings[k][1]]
                 click == <<KeyClick(e.action)>>
             IN  /\ hist[1].out = IF e.trigger = "OnPress" THEN click ELSE <<>>
                 /\ Len(hist) = 1 => output_action = <<>> /\ pressed_key = {k}
                 /\ (Len(hist) >= 2 /\ Events[2] = KeyReleased(k))
                       => /\ hist[2].out = IF e.trigger = "OnRelease" THEN click
                                           ELSE <<>>
                          /\ hist[2].held = <<>>
                          /\ Len(hist) = 2 => output_action = <<>> /\ pressed_key = {}
    /\ (cfg = CfgS1 /\ Events = <<KeyPressed(short), KeyReleased(short)>>)
          => /\ hist[1].out = <<KeyClick(SPACE)>>
             /\ hist[2].out = <<>>
    /\ (cfg = CfgS5 /\ Events = <<KeyPressed(short), KeyReleased(short)>>)
          => /\ hist[1].out = <<>>
             /\ hist[2].out = <<KeyClick(ENTER)>>

\* The cycle of scenario S1 has run, and its click has been sent.
C19_Witness ==
    /\ cfg = CfgS1
    /\ Events = <<KeyPressed(short), KeyReleased(short)>>
    /\ Len(injected) = 1
    /\ pc = "recv"

\* The keys of the tokens that parse, up to the first token that does not.
RECURSIVE ParsedKeys(_)
ParsedKeys(tokens) ==
    IF tokens = <<>> \/ ~parse_key(Head(tokens)).ok THEN <<>>
    ELSE <<parse_key(Head(tokens)).key>> \o ParsedKeys(Tail(tokens))

\* C20: the enigo calls of a click of several tokens are the presses, in
\* token order, of the parsed keys that were not in active_key, followed by
\* the releases of the same keys in the reverse order.
C20_ClickReleasesInReverse ==
    (/\ last_send.action.kind = "KeyClick"
     /\ to_uppercase(last_send.action.s) \notin {WHEEL_UP, WHEEL_DOWN}
     /\ Len(split(last_send.action.s, "+")) >= 2)
    => LET keys == SelectSeq(ParsedKeys(split(last_send.action.s, "+")),
                             LAMBDA key : key \notin last_send.active_before)
       IN  last_send.ops
              = [i \in 1..Len(keys) |-> EnigoPress(keys[i])]
                \o [i \in 1..Len(keys) |-> EnigoRelease(keys[Len(keys) + 1 - i])]

\* The keys that are in the stateless table only.
StatelessKeys ==
    {cfg.key_map.stateless[h] : h \in DOMAIN cfg.key_map.stateless}
    \ {cfg.key_map.stateful[h] : h \in DOMAIN cfg.key_map.stateful}

\* C21: a key of the stateless table is never left in pressed_key and no
\* entry it triggers is left in output_action.
C21_StatelessMomentary ==
    pc = "recv" =>
    \A k \in StatelessKeys :
        /\ k \notin pressed_key
        /\ \A i \in 1..Len(output_action) :
              entrys[output_action[i]].trigger_key # k

\* The events of the bytes of buf, each decoded as a one-byte event.
BufEvents(buf) ==
    LET ds  == [i \in 1..Len(buf) |-> decode(cfg, buf[i], overflow_checks)]
        evs == SelectSeq(ds, LAMBDA d : d.kind \in {"KeyPressed", "KeyReleased"})
    IN  [i \in 1..Len(evs) |-> [kind |-> evs[i].kind, key |-> evs[i].key]]

\* C22: a read turn that ends without error has sent the event of every
\* byte the read returned, one event per byte with a known code.
C22_EveryByteDecoded ==
    t_last.op \in {"sent", "unknown"} =>
        SubSeq(emitted, t_last.emitted + 1, Len(emitted)) = BufEvents(read_buf)

\* The keys whose most recent event among the first n events was KeyPressed.
PressedAsOf(n) ==
    {k \in {hist[i].ev.key : i \in 1..n} :
        hist[Max({i \in 1..n : hist[i].ev.key = k})].ev.kind = "KeyPressed"}

\* C23, as claimed: process(KeyPressed(k)) ends with k in pressed_key and
\* process(KeyReleased(k)) with k not in it, pressed_key is the set of keys
\* whose most recent event was KeyPressed, and the selection for
\* KeyPressed(k) sees pressed_key without k, that for KeyReleased(k) with k.
C23_SelectionSeesOtherState ==
    hist # <<>> =>
        /\ pressed_key = PressedAsOf(Len(hist))
        /\ (Last.ev.key \in pressed_key) = (Last.ev.kind = "KeyPressed")
        /\ (Last.ev.key \in Last.pressed) = (Last.ev.kind = "KeyReleased")

\* C23, amended: pressed_key is updated whatever the selection and is the
\* set of keys whose most recent event was KeyPressed, and the selection for
\* an event sees pressed_key as the earlier events left it: the entry
\* selected is the one get_actived_action finds for that set.
C23_UpdateAfterSelection ==
    hist # <<>> =>
        /\ pressed_key = PressedAsOf(Len(hist))
        /\ (Last.ev.key \in pressed_key) = (Last.ev.kind = "KeyPressed")
        /\ Last.pressed = PressedAsOf(Len(hist) - 1)
        /\ Last.actived =
              get_actived_action(entrys, mappings,
                                 PressedAsOf(Len(hist) - 1), Last.ev)

\* KeyPressed(k) comes for a key that is already pressed and selects an
\* entry that has k itself as a modifier.
C23_Witness ==
    /\ Len(hist) >= 2
    /\ Last.ev.kind = "KeyPressed"
    /\ Last.ev.key \in Last.pressed
    /\ Last.actived # 0
    /\ Contains(entrys[Last.actived].modifier, Last.ev.key)

\* The last event is a KeyPressed that selected an OnHold entry.
HoldSelected ==
    /\ hist # <<>>
    /\ Last.ev.kind = "KeyPressed"
    /\ Last.actived # 0
    /\ LastEntry.trigger = "OnHold"

\* The held entry h shares a modifier with e, or its trigger key is a
\* modifier of e.
SharesModifier(h, e) ==
    \E m \in Range(e.modifier) : m \in Range(h.modifier) \/ h.trigger_key = m

\* The handles held before the last event that it supersedes, and the others.
SupersededHeld ==
    SelectSeq(Last.held, LAMBDA h : SharesModifier(entrys[h], LastEntry))
KeptHeld ==
    SelectSeq(Last.held, LAMBDA h : ~SharesModifier(entrys[h], LastEntry))

\* The actions of the last event are n KeyRelease actions of tokens of
\* superseded entries, then a KeyPress for every token of the selected
\* action, in order.
ReleasesThenPresses(n) ==
    LET toks == split(LastEntry.action, "+")
    IN  /\ \A i \in 1..n :
              /\ Last.out[i].kind = "KeyRelease"
              /\ \E j \in 1..Len(SupersededHeld) :
                    Last.out[i].s \in Tokens(entrys[SupersededHeld[j]].action)
        /\ SubSeq(Last.out, n + 1, Len(Last.out)) =
              [i \in 1..Len(toks) |-> KeyPress(toks[i])]

\* What C24 says of the entries: the superseded entries are exactly those
\* that share a modifier with the selected entry or are triggered by one of
\* its modifiers, the others stay held, the selected entry ends held, and
\* the releases, all of superseded entries, come before the presses.
HoldSupersedesEntries ==
    HoldSelected =>
        /\ output_action = KeptHeld \o <<Last.actived>>
        /\ \E n \in 0..Len(Last.out) : ReleasesThenPresses(n)

\* C24: on a KeyPressed that selects an OnHold entry E the superseded entries
\* are exactly the held entries that share a modifier with E or whose
\* trigger_key is a modifier of E; the other held entries stay and no
\* KeyRelease is emitted for a token of theirs; the releases come before the
\* presses, one KeyPress per token of E.action in order; E ends held.
C24_HoldSupersedes ==
    /\ HoldSupersedesEntries
    /\ HoldSelected =>
          \A i \in 1..Len(Last.out), j \in 1..Len(KeptHeld) :
              Last.out[i].kind = "KeyRelease" =>
                  Last.out[i].s \notin Tokens(entrys[KeptHeld[j]].action)

\* The held entry h has k as its trigger key or as a modifier.
DependsOnKey(h, k) == h.trigger_key = k \/ k \in Range(h.modifier)

\* The handles held before the last event that depend on its key, and the
\* others.
DependentHeld ==
    SelectSeq(Last.held, LAMBDA h : DependsOnKey(entrys[h], Last.ev.key))
IndependentHeld ==
    SelectSeq(Last.held, LAMBDA h : ~DependsOnKey(entrys[h], Last.ev.key))

\* KeyRelease for every token of every entry of hs, in order.
RECURSIVE ReleasesOf(_)
ReleasesOf(hs) ==
    IF hs = <<>> THEN <<>>
    ELSE LET toks == split(entrys[Head(hs)].action, "+")
         IN  [i \in 1..Len(toks) |-> KeyRelease(toks[i])] \o ReleasesOf(Tail(hs))

\* The click of the last event, a KeyReleased.
ReleaseClick ==
    IF Last.actived # 0 /\ LastEntry.trigger = "OnRelease"
    THEN <<KeyClick(LastEntry.action)>>
    ELSE <<>>

\* C25: on KeyReleased(k) the actions are, first, the click of the selected
\* entry if it is OnRelease, then for every held entry with trigger_key k or
\* with k among its modifiers a KeyRelease for every token of its action, in
\* action order, and nothing else; these entries are removed, and the other
\* held entries are kept and get no KeyRelease.
C25_ReleaseDependents ==
    (hist # <<>> /\ Last.ev.kind = "KeyReleased") =>
        /\ Last.out = ReleaseClick \o ReleasesOf(DependentHeld)
        /\ output_action = IndependentHeld

\* A KeyReleased clicked, removed an entry with two tokens and kept another.
C25_Witness ==
    /\ hist # <<>>
    /\ Last.ev.kind = "KeyReleased"
    /\ ReleaseClick # <<>>
    /\ \E i \in 1..Len(DependentHeld) :
          Len(split(entrys[DependentHeld[i]].action, "+")) >= 2
    /\ IndependentHeld # <<>>

\* C26: output_action is a set: no handle is in it more than once.
C26_HeldIsSet ==
    \A i, j \in 1..Len(output_action) :
        output_action[i] = output_action[j] => i = j

\* C27: once all actions are sent (all tokens parseable), active_key is
\* empty whenever output_action is empty, and so whenever every pressed
\* device key has been released; no host key is then down.
C27_NoKeyOutlivesHolds ==
    (pc = "recv" /\ AllParseable) =>
        /\ output_action = <<>> => active_key = {} /\ host_down = {}
        /\ pressed_key = {} => active_key = {} /\ host_down = {}

\* Two entries were held at once and every device key has been released.
C27_Witness ==
    /\ pc = "recv"
    /\ AllParseable
    /\ \E i \in 1..Len(hist) : Len(hist[i].held) >= 2
    /\ output_action = <<>>
    /\ pressed_key = {}

\* C28: a KeyReleased(k) emits a click only if k was in pressed_key.
C28_ClickOnlyIfHeld ==
    (/\ hist # <<>>
     /\ Last.ev.kind = "KeyReleased"
     /\ \E i \in 1..Len(Last.out) : Last.out[i].kind = "KeyClick")
    => Last.ev.key \in Last.pressed

\* C28, amended: KeyReleased(k) emits a click exactly when it selects an
\* OnRelease entry, which it does whenever a candidate of k has all of its
\* modifiers in pressed_key and the best of them is OnRelease, whether k is
\* in pressed_key or not; the click is the first action and is that of the
\* selected entry.
C28_ClickWheneverSelected ==
    (hist # <<>> /\ Last.ev.kind = "KeyReleased") =>
        /\ (Last.actived # 0) = (Survivors # {})
        /\ (\E i \in 1..Len(Last.out) : Last.out[i].kind = "KeyClick")
              = (Last.actived # 0 /\ LastEntry.trigger = "OnRelease")
        /\ (Last.actived # 0 /\ LastEntry.trigger = "OnRelease")
              => Last.out[1] = KeyClick(LastEntry.action)

\* The first event is the KeyReleased of a key, never pressed, and it clicks.
C28_Witness ==
    /\ Len(hist) = 1
    /\ Last.ev.kind = "KeyReleased"
    /\ Last.ev.key \notin Last.pressed
    /\ Last.out # <<>>
    /\ Last.out[1].kind = "KeyClick"

====
